---------------------------- MODULE Spec2Model ----------------------------
(***************************************************************************)
(* Signaling relay (party/index.ts, class WebRTCRoom) and negotiation      *)
(* client (hooks/useWebRTC.js, services/signaling.js, the call page) of     *)
(* the video-call application.                                             *)
(*                                                                         *)
(* The specifications share the variables:                                 *)
(*   SpecRelay   the room relay alone, driven by arbitrary members;        *)
(*   SpecStamped the relay with texts that record who was in the room      *)
(*               when they were sent;                                      *)
(*   SpecGarbled the relay with members that stay and send texts that      *)
(*               do not parse;                                             *)
(*   SpecForeign the relay with one negotiation client and members that    *)
(*               send texts of unrecognized type;                          *)
(*   Spec        one session of one negotiation client, driven by an       *)
(*               arbitrary peer, the browser (async completions,           *)
(*               failures) and the user;                                   *)
(*   SpecLife    the same client when its mount effect runs again;         *)
(*   SpecCamera  one session in which the user switches the camera;        *)
(*   SpecTrickle one session with a peer that keeps to the protocol;       *)
(*   SpecCall    two clients and the relay, nothing fails, with the        *)
(*               fairness of the event loop and of the transport;          *)
(*   SpecSettings two clients and the relay, with both users at their AI   *)
(*               settings panels;                                          *)
(*   SpecCrossed one client in a room whose other members send offers;     *)
(*   SpecQueue   the signaling service with a socket that loses its        *)
(*               connection and opens again;                               *)
(*   SpecDispatch the message listener given arbitrary texts.              *)
(***************************************************************************)
EXTENDS Integers, Sequences, FiniteSets, TLC

(***************************************************************************)
(* Bounds of the model.                                                    *)
(***************************************************************************)
MaxJoins == 3      \* SpecRelay: connections accepted
MaxSends == 2      \* SpecRelay: texts sent by members
MaxRecv == 3       \* Spec: negotiation texts the client receives
MaxFails == 1      \* Spec, SpecLife: asynchronous operations that reject
MaxMounts == 2     \* SpecLife: runs of the mount effect (initialize() calls)
MaxCleanups == 2   \* SpecLife: cleanup() calls
MaxLifeRecv == 1   \* SpecLife: negotiation texts the client receives
MaxTrickle == 4    \* SpecTrickle: candidates the peer sends
MaxToggles == 2    \* SpecCamera: camera switches the user starts
MaxLocal == 2      \* SpecCall: candidates each peer connection gathers
MaxSettings == 2   \* SpecSettings: uses of the AI settings panel by each user
MaxSubmits == 3    \* SpecQueue: results the page submits to the signaling service
MaxDrops == 2      \* SpecQueue: times the socket loses its connection

Conns == {"A", "B", "C"}

VARIABLES
    members,    \* relay: the connections currently in the room
    wire,       \* wire[c]: messages c's socket has sent, not yet handled by the relay
    inbox,      \* inbox[c]: messages the relay has sent to connection c
    njoins,     \* number of connections accepted so far (bounds the model)
    nsent,      \* number of messages put on the wire so far (bounds the model)
    cl          \* cl[c]: the negotiation client c (one call page and its hook)

relayVars == <<members, wire, inbox, njoins, nsent>>

vars == <<members, wire, inbox, njoins, nsent, cl>>

(***************************************************************************)
(* Messages.  A message is the text a socket carries; the model keeps the   *)
(* fields the code reads (type, peerId), whether JSON.parse accepts the     *)
(* text (json), a payload number n (the candidate, the settings), and the   *)
(* connection that wrote it (src; "relay" for the relay's own messages).    *)
(* stamp is history, not part of the text: the connections that were not   *)
(* in the room when the text was sent (kept by SpecStamped only).          *)
(***************************************************************************)
Types == {"offer", "answer", "ice-candidate", "peer-joined", "peer-disconnected",
          "ai-settings", "ai-results", "unknown"}

Message(type, src, n) ==
    [type |-> type, src |-> src, peerId |-> "", n |-> n, json |-> TRUE,
     isNull |-> FALSE, stamp |-> {}]

\* A text JSON.parse throws on.
Malformed(src) ==
    [type |-> "", src |-> src, peerId |-> "", n |-> 0, json |-> FALSE,
     isNull |-> FALSE, stamp |-> {}]

\* The text null: JSON.parse accepts it and returns null, and reading
\* data.type of it throws a TypeError.
JsonNull(src) ==
    [type |-> "", src |-> src, peerId |-> "", n |-> 0, json |-> TRUE,
     isNull |-> TRUE, stamp |-> {}]

\* try { const data = JSON.parse(text); ... data.type ... }: whether the
\* statements after the read of data.type are reached.
ReadsType(message) == message.json /\ ~message.isNull

\* JSON.stringify({type: 'peer-joined', peerId: conn.id})
PeerJoined(id) ==
    [type |-> "peer-joined", src |-> "relay", peerId |-> id, n |-> 0, json |-> TRUE,
     isNull |-> FALSE, stamp |-> {}]

\* JSON.stringify({type: 'peer-disconnected', peerId: conn.id})
PeerDisconnected(id) ==
    [type |-> "peer-disconnected", src |-> "relay", peerId |-> id, n |-> 0, json |-> TRUE,
     isNull |-> FALSE, stamp |-> {}]

(***************************************************************************)
(* The relay.                                                              *)
(***************************************************************************)

\* A broadcast that forgets its exclusion list.
BroadcastToAll(room, msg, without) ==
    [q \in Conns |-> IF q \in room THEN Append(inbox[q], msg) ELSE inbox[q]]

\* room.broadcast(msg, without): msg to every connection of the room whose id
\* is not in without.
Broadcast(room, msg, without) ==
    [q \in Conns |-> IF q \in room /\ q \notin without
                     THEN Append(inbox[q], msg) ELSE inbox[q]]

\* onClose that notifies nobody.
OnCloseSilent(conn) ==
    /\ members' = members \ {conn}
    /\ inbox' = inbox
    /\ wire' = [wire EXCEPT ![conn] = <<>>]

\* onConnect whose broadcast excludes nobody.
OnConnectEcho(conn) ==
    /\ members' = members \cup {conn}
    /\ inbox' = [q \in Conns |->
                    IF q = conn THEN <<PeerJoined(conn)>>
                    ELSE Broadcast(members \cup {conn}, PeerJoined(conn), {})[q]]
    /\ wire' = [wire EXCEPT ![conn] = <<>>]

\* onMessage that forwards what it could not parse.
OnMessageUnparsed(sender) ==
    LET message == Head(wire[sender]) IN
    /\ wire' = [wire EXCEPT ![sender] = Tail(wire[sender])]
    /\ inbox' = Broadcast(members, message, {sender})
    /\ members' = members

\* onConnect that notifies nobody.
OnConnectSilent(conn) ==
    /\ members' = members \cup {conn}
    /\ inbox' = [inbox EXCEPT ![conn] = <<>>]
    /\ wire' = [wire EXCEPT ![conn] = <<>>]

\* onConnect of a relay that keeps a backlog: the new connection is sent
\* what the relay last sent to another member.
OnConnectReplaying(conn) ==
    /\ members' = members \cup {conn}
    /\ inbox' = [q \in Conns |->
                    IF q = conn
                    THEN IF \E r \in members : inbox[r] # <<>>
                         THEN LET r == CHOOSE r \in members : inbox[r] # <<>>
                              IN <<inbox[r][Len(inbox[r])]>>
                         ELSE <<>>
                    ELSE Broadcast(members \cup {conn}, PeerJoined(conn), {conn})[q]]
    /\ wire' = [wire EXCEPT ![conn] = <<>>]

\* onConnect of a relay that also tells the new connection about a member
\* that is present.
OnConnectGreeting(conn) ==
    /\ members' = members \cup {conn}
    /\ inbox' = [q \in Conns |->
                    IF q = conn
                    THEN IF members # {}
                         THEN <<PeerJoined(CHOOSE r \in members : TRUE)>>
                         ELSE <<>>
                    ELSE Broadcast(members \cup {conn}, PeerJoined(conn), {conn})[q]]
    /\ wire' = [wire EXCEPT ![conn] = <<>>]

\* WebRTCRoom.onConnect: the new connection is in the room when the handler
\* runs; its channel is new.
OnConnect(conn) ==
    /\ members' = members \cup {conn}
    /\ inbox' = [q \in Conns |->
                    IF q = conn THEN <<>>
                    ELSE Broadcast(members \cup {conn}, PeerJoined(conn), {conn})[q]]
    /\ wire' = [wire EXCEPT ![conn] = <<>>]

\* onMessage that takes the newest message of the socket first.
OnMessageNewest(sender) ==
    LET message == wire[sender][Len(wire[sender])] IN
    /\ wire' = [wire EXCEPT ![sender] = SubSeq(wire[sender], 1, Len(wire[sender]) - 1)]
    /\ inbox' = IF ReadsType(message)
                THEN Broadcast(members, message, {sender})
                ELSE inbox
    /\ members' = members

\* WebRTCRoom.onMessage, on the oldest message of sender's socket.
OnMessage(sender) ==
    LET message == Head(wire[sender]) IN
    /\ wire' = [wire EXCEPT ![sender] = Tail(wire[sender])]
    /\ inbox' = IF ReadsType(message)
                THEN Broadcast(members, message, {sender})
                ELSE inbox     \* catch: logged, nothing sent
    /\ members' = members

\* WebRTCRoom.onClose.  Whether the runtime still lists the closing
\* connection is not the relay's choice: the handler excludes it itself.
\* What the closed socket had in flight is lost.
OnClose(conn) ==
    /\ members' = members \ {conn}
    /\ inbox' = Broadcast(members, PeerDisconnected(conn), {conn})
    /\ wire' = [wire EXCEPT ![conn] = <<>>]

(***************************************************************************)
(* The negotiation client: the call page, the useWebRTC hook and its       *)
(* SignalingService.  cl[c] is a record; an operation of the code is a      *)
(* function from the record before to the record after, so that the        *)
(* statements of a handler compose in program order.  A handler runs       *)
(* until its next await: the awaited operation waits on the peer            *)
(* connection's operations chain, and the step that settles it runs the    *)
(* handler on to its next await.                                           *)
(***************************************************************************)
Clients == {"A", "B"}

\* A MediaStreamTrack as getUserMedia returns it.
Track(kind) == [kind |-> kind, live |-> TRUE, stops |-> 0]

\* new RTCPeerConnection(iceServers)
NewPC ==
    [closed |-> FALSE, remoteDescription |-> FALSE, localDescription |-> FALSE,
     signalingState |-> "stable", applied |-> <<>>, senders |-> {}, chain |-> <<>>]

\* An awaited call on a peer connection: the method, the handler that awaits
\* it (offer, answer, ice, join), the candidate n, and for a call made by the
\* drain loop the loop's position: cur (the loop still iterates the array
\* pendingIceCandidatesRef.current refers to), i (its index there), rest (what
\* is left of an array the ref no longer refers to).
Op(op, kind, n, cur, i, rest) ==
    [op |-> op, kind |-> kind, n |-> n, cur |-> cur, i |-> i, rest |-> rest]

Call(op, kind) == Op(op, kind, 0, FALSE, 0, <<>>)

\* new SignalingService(callId, onMessage, onAISettings, onAIResults)
NewSignaling == [socket |-> "null", isConnected |-> FALSE, messageQueue |-> <<>>]

\* The hook's state after the first render; the history fields (from last on)
\* are not program state.
NewClient(id, initiator) ==
    [id |-> id, isInitiator |-> initiator, mounted |-> FALSE,
     localStream |-> 0, remoteStream |-> 0, connectionState |-> "new", error |-> "",
     peerConnectionRef |-> 0, signalingRef |-> 0, localStreamRef |-> 0,
     pending |-> <<>>, isNegotiating |-> FALSE, hasCreatedOffer |-> FALSE,
     aiSettings |-> 0, panel |-> 0, threw |-> FALSE, called |-> {},
     isSwitchingCamera |-> FALSE, cam |-> 0, pageThrew |-> FALSE, ncam |-> 0,
     pcs |-> <<>>, sigs |-> <<>>, tracks |-> <<>>, streams |-> <<>>,
     gum |-> 0, gumStale |-> 0, outbuf |-> <<>>,
     last |-> <<"new", "">>,
     nmounts |-> 0, ncleanups |-> 0, nrecv |-> 0, nice |-> 0, nfails |-> 0,
     nlocal |-> 0, nset |-> 0, nsub |-> 0, ndrops |-> 0,
     pcSince |-> 0, sigSince |-> 0, offersOpen |-> 0, offersSent |-> 0,
     answersSent |-> 0]

(***************************************************************************)
(* SignalingService.                                                       *)
(***************************************************************************)

\* SignalingService.connect
Connect(sig) ==
    IF sig.socket # "null" THEN sig ELSE [sig EXCEPT !.socket = "connecting"]

\* SignalingService._sendOrQueue on service k
SendOrQueue(s, k, m) ==
    IF s.sigs[k].isConnected /\ s.sigs[k].socket # "null"
    THEN [s EXCEPT !.outbuf = Append(@, m)]
    ELSE [s EXCEPT !.sigs[k].messageQueue = Append(@, m)]

\* signalingRef.current?.sendAnswer / sendIceCandidate
SendVia(s, m) ==
    IF s.signalingRef = 0 THEN s ELSE SendOrQueue(s, s.signalingRef, m)

\* signalingRef.current?.sendOffer(offer)
SendOffer(s) ==
    IF s.signalingRef = 0 THEN s
    ELSE [SendOrQueue(s, s.signalingRef, Message("offer", s.id, 0))
            EXCEPT !.offersSent = @ + 1]

\* An "open" listener that keeps the queue it has sent.
OnOpenKeepingQueue(s, k) ==
    [s EXCEPT !.sigs[k].socket = "open",
              !.sigs[k].isConnected = TRUE,
              !.outbuf = @ \o s.sigs[k].messageQueue]

\* The "open" listener of service k.
OnOpen(s, k) ==
    [s EXCEPT !.sigs[k].socket = "open",
              !.sigs[k].isConnected = TRUE,
              !.sigs[k].messageQueue = <<>>,
              !.outbuf = @ \o s.sigs[k].messageQueue]

\* The "close" listener of service k: the socket (a PartySocket) has lost
\* its connection and connects again by itself.
OnSocketClose(s, k) ==
    [s EXCEPT !.sigs[k].isConnected = FALSE, !.sigs[k].socket = "connecting"]

\* signalingRef.current.sendAIResults(results) of the page's processing
\* loop; the results are numbered in the order they are submitted.
SendAIResults(s) ==
    [SendVia(s, Message("ai-results", s.id, s.nsub + 1)) EXCEPT !.nsub = @ + 1]

\* SignalingService.close
CloseSignaling(s, k) ==
    IF s.sigs[k].socket # "null"
    THEN [s EXCEPT !.sigs[k].socket = "null", !.sigs[k].isConnected = FALSE]
    ELSE s

(***************************************************************************)
(* handleSignalingMessage.                                                 *)
(***************************************************************************)

\* An awaited call rejects.  The offer attempt has its own catch, which
\* resets the guards; every other await is under the handler's catch.
Rejected(s, o) ==
    IF o.kind = "join"
    THEN [s EXCEPT !.isNegotiating = FALSE, !.hasCreatedOffer = FALSE,
                   !.offersOpen = IF @ > 0 THEN @ - 1 ELSE 0]
    ELSE [s EXCEPT !.error = "Signaling error"]

\* await pc.<o.op>(...): on a closed connection the call rejects at once,
\* otherwise it joins the connection's operations chain.
CallOp(s, p, o) ==
    IF s.pcs[p].closed THEN Rejected(s, o)
    ELSE [s EXCEPT !.pcs[p].chain = Append(@, o)]

\* pendingIceCandidatesRef.current = []: a loop that still iterates the old
\* array keeps what is left of it.
Orphaned(o, pending) ==
    IF o.cur
    THEN [o EXCEPT !.cur = FALSE, !.i = 0,
                   !.rest = SubSeq(pending, o.i + 1, Len(pending))]
    ELSE o

ResetPending(s) ==
    [s EXCEPT !.pending = <<>>,
              !.pcs = [p \in DOMAIN s.pcs |->
                         [s.pcs[p] EXCEPT !.chain =
                            [j \in DOMAIN s.pcs[p].chain |->
                                Orphaned(s.pcs[p].chain[j], s.pending)]]]]

\* The code after the drain loop.
AfterDrain(s, p, kind) ==
    IF kind = "offer"
    THEN CallOp(ResetPending(s), p, Call("createAnswer", "offer"))
    ELSE [ResetPending(s) EXCEPT !.isNegotiating = FALSE]

\* for (const candidate of pendingIceCandidatesRef.current): the loop at
\* index i of the current array (cur), or at the head of rest.
Drain(s, p, kind, cur, i, rest) ==
    IF cur
    THEN IF i <= Len(s.pending)
         THEN CallOp(s, p, Op("addIceCandidate", kind, s.pending[i], TRUE, i, <<>>))
         ELSE AfterDrain(s, p, kind)
    ELSE IF rest # <<>>
         THEN CallOp(s, p, Op("addIceCandidate", kind, Head(rest), FALSE, 0, Tail(rest)))
         ELSE AfterDrain(s, p, kind)

\* Whether the browser can fulfil call o on connection pc (W3C WebRTC: the
\* signaling states a description may be set in; a candidate needs a remote
\* description).
CanFulfil(pc, o) ==
    CASE o.op = "setRemoteDescription" /\ o.kind = "offer" ->
            pc.signalingState \in {"stable", "have-local-offer", "have-remote-offer"}
      [] o.op = "setRemoteDescription" /\ o.kind = "answer" ->
            pc.signalingState = "have-local-offer"
      [] o.op = "createAnswer" -> pc.signalingState = "have-remote-offer"
      [] o.op = "setLocalDescription" /\ o.kind = "offer" ->
            pc.signalingState = "have-remote-offer"
      [] o.op = "setLocalDescription" /\ o.kind = "join" ->
            pc.signalingState \in {"stable", "have-local-offer"}
      [] o.op = "addIceCandidate" -> pc.remoteDescription
      [] OTHER -> TRUE

\* The handler that awaited o on connection p, from the fulfilment of o to
\* its next await or its end.
Resumed(s, p, o) ==
    CASE o.op = "setRemoteDescription" ->
            \* the description is set and ontrack has fired (setRemoteStream)
            LET t == [s EXCEPT
                        !.pcs[p].remoteDescription = TRUE,
                        !.pcs[p].localDescription =
                            IF o.kind = "offer" THEN FALSE ELSE @,
                        !.pcs[p].signalingState =
                            IF o.kind = "offer" THEN "have-remote-offer" ELSE "stable",
                        !.remoteStream = 1]
            IN Drain(t, p, o.kind, TRUE, 1, <<>>)
      [] o.op = "addIceCandidate" ->
            LET t == [s EXCEPT !.pcs[p].applied = Append(@, o.n)]
            IN IF o.kind = "ice" THEN t
               ELSE Drain(t, p, o.kind, o.cur, o.i + 1, o.rest)
      [] o.op = "createAnswer" ->
            CallOp(s, p, Call("setLocalDescription", "offer"))
      [] o.op = "createOffer" ->
            CallOp(s, p, Call("setLocalDescription", "join"))
      [] o.op = "setLocalDescription" /\ o.kind = "offer" ->
            LET t == [s EXCEPT !.pcs[p].localDescription = TRUE,
                               !.pcs[p].signalingState = "stable"]
            IN [SendVia(t, Message("answer", s.id, 0))
                    EXCEPT !.isNegotiating = FALSE,
                           !.answersSent = IF s.signalingRef = 0 THEN @ ELSE @ + 1]
      [] o.op = "setLocalDescription" /\ o.kind = "join" ->
            LET t == [s EXCEPT !.pcs[p].localDescription = TRUE,
                               !.pcs[p].signalingState = "have-local-offer"]
            IN SendOffer(t)
      [] OTHER -> s

\* case "peer-joined" with the guards never set.
PeerJoinedCaseUnguarded(s, p) ==
    IF s.isInitiator /\ ~s.hasCreatedOffer /\ ~s.isNegotiating
    THEN IF s.pcs[p].signalingState # "stable" THEN s
         ELSE CallOp([s EXCEPT !.offersOpen = @ + 1], p, Call("createOffer", "join"))
    ELSE s

\* case "peer-joined" without the test of isInitiator.
PeerJoinedCaseAnyRole(s, p) ==
    IF ~s.hasCreatedOffer /\ ~s.isNegotiating
    THEN IF s.pcs[p].signalingState # "stable" THEN s
         ELSE CallOp([s EXCEPT !.isNegotiating = TRUE, !.hasCreatedOffer = TRUE,
                               !.offersOpen = @ + 1],
                     p, Call("createOffer", "join"))
    ELSE s

\* case "peer-joined" without the test of the signaling state.
PeerJoinedCaseAnyState(s, p) ==
    IF s.isInitiator /\ ~s.hasCreatedOffer /\ ~s.isNegotiating
    THEN CallOp([s EXCEPT !.isNegotiating = TRUE, !.hasCreatedOffer = TRUE,
                          !.offersOpen = @ + 1],
                p, Call("createOffer", "join"))
    ELSE s

\* case "peer-joined"
PeerJoinedCase(s, p) ==
    IF s.isInitiator /\ ~s.hasCreatedOffer /\ ~s.isNegotiating
    THEN IF s.pcs[p].signalingState # "stable" THEN s
         ELSE CallOp([s EXCEPT !.isNegotiating = TRUE, !.hasCreatedOffer = TRUE,
                               !.offersOpen = @ + 1],
                     p, Call("createOffer", "join"))
    ELSE s

\* handleSignalingMessage(data), to its first await or its end.
HandleSignalingMessage(s, data) ==
    LET p == s.peerConnectionRef IN
    IF p = 0 THEN s
    ELSE CASE data.type = "offer" ->
                CallOp([s EXCEPT !.isNegotiating = TRUE], p,
                       Call("setRemoteDescription", "offer"))
           [] data.type = "answer" ->
                CallOp(s, p, Call("setRemoteDescription", "answer"))
           [] data.type = "ice-candidate" ->
                IF ~s.pcs[p].remoteDescription
                THEN [s EXCEPT !.pending = Append(@, data.n)]
                ELSE CallOp(s, p, Op("addIceCandidate", "ice", data.n, FALSE, 0, <<>>))
           [] data.type = "peer-joined" -> PeerJoinedCase(s, p)
           [] data.type = "peer-disconnected" ->
                [s EXCEPT !.connectionState = "disconnected",
                          !.error = "Other party disconnected"]
           [] OTHER -> s

\* The callbacks the "message" listener of SignalingService invokes for
\* text data; useWebRTC is always given the page's onAISettings and
\* onAIResults callbacks and its own onMessage.
Dispatch(data) ==
    IF ~ReadsType(data) THEN {}     \* catch: logged
    ELSE IF data.type = "ai-settings" THEN {"onAISettings"}
    ELSE IF data.type = "ai-results" THEN {"onAIResults"}
    ELSE {"onMessage"}

\* The "message" listener of SignalingService: handleRemoteAISettings sets
\* the page's settings, handleRemoteAIResults the remote overlay (not
\* modelled), onMessage is handleSignalingMessage.
OnSocketMessage(s, data) ==
    LET t == [s EXCEPT !.called = Dispatch(data)] IN
    IF "onAISettings" \in t.called THEN [t EXCEPT !.aiSettings = data.n]
    ELSE IF "onMessage" \in t.called THEN HandleSignalingMessage(t, data)
    ELSE t

(***************************************************************************)
(* initialize and cleanup.                                                 *)
(***************************************************************************)

\* initialize(), to its await of getUserMedia.
InitializeStart(s) ==
    IF s.peerConnectionRef # 0 \/ s.signalingRef # 0 THEN s
    ELSE [s EXCEPT !.gum = @ + 1]

\* initialize() that connects to the relay without adding the tracks.
InitializeWithoutTracks(s) ==
    LET v  == Len(s.tracks) + 1
        a  == Len(s.tracks) + 2
        st == Len(s.streams) + 1
        p  == Len(s.pcs) + 1
        k  == Len(s.sigs) + 1
    IN [s EXCEPT !.tracks = @ \o <<Track("video"), Track("audio")>>,
                 !.streams = Append(@, {v, a}),
                 !.localStreamRef = st,
                 !.localStream = st,
                 !.pcs = Append(@, NewPC),
                 !.peerConnectionRef = p,
                 !.sigs = Append(@, Connect(NewSignaling)),
                 !.signalingRef = k,
                 !.pcSince = @ + 1,
                 !.sigSince = @ + 1]

\* initialize() from the fulfilment of getUserMedia: initializeMedia's tail,
\* createPeerConnection, addTrack, new SignalingService, connect.
InitializeResumed(s) ==
    LET v  == Len(s.tracks) + 1
        a  == Len(s.tracks) + 2
        st == Len(s.streams) + 1
        p  == Len(s.pcs) + 1
        k  == Len(s.sigs) + 1
    IN [s EXCEPT !.tracks = @ \o <<Track("video"), Track("audio")>>,
                 !.streams = Append(@, {v, a}),
                 !.localStreamRef = st,
                 !.localStream = st,
                 !.pcs = Append(@, [NewPC EXCEPT !.senders = {v, a}]),
                 !.peerConnectionRef = p,
                 !.sigs = Append(@, Connect(NewSignaling)),
                 !.signalingRef = k,
                 !.pcSince = @ + 1,
                 !.sigSince = @ + 1]

\* initialize() that creates the peer connection before it asks for media,
\* and fails with the connection left open.
InitializeFailedHalfBuilt(s) ==
    [s EXCEPT !.error = "Initialization failed",
              !.pcs = Append(@, NewPC),
              !.peerConnectionRef = Len(s.pcs) + 1]

\* initialize() from the rejection of getUserMedia: both catch blocks.
InitializeFailed(s) ==
    [[s EXCEPT !.error = "Camera/microphone access denied"]
        EXCEPT !.error = "Initialization failed"]

\* ref.getTracks().forEach((track) => track.stop()); on a null ref the call
\* throws a TypeError.
StopTracks(s, ref) ==
    IF ref = 0 THEN [s EXCEPT !.threw = TRUE]
    ELSE [s EXCEPT !.tracks = [t \in DOMAIN s.tracks |->
                            IF t \in s.streams[ref]
                            THEN [s.tracks[t] EXCEPT !.live = FALSE, !.stops = @ + 1]
                            ELSE s.tracks[t]]]

\* pc.close(): what the connection had in flight never settles, and nothing
\* reads a closed connection again: only that it is closed is kept.
ClosePC(s, p) ==
    [s EXCEPT !.pcs[p] = [NewPC EXCEPT !.closed = TRUE, !.signalingState = "closed"]]

\* cleanup() that keeps localStreamRef.
CleanupKeepingStream(s) ==
    LET s1 == IF s.localStreamRef # 0
              THEN StopTracks(s, s.localStreamRef) ELSE s
        s2 == IF s1.peerConnectionRef # 0 THEN ClosePC(s1, s1.peerConnectionRef) ELSE s1
        s3 == IF s2.signalingRef # 0 THEN CloseSignaling(s2, s2.signalingRef) ELSE s2
    IN [ResetPending(s3) EXCEPT
            !.localStream = 0, !.remoteStream = 0, !.connectionState = "new",
            !.peerConnectionRef = 0, !.signalingRef = 0,
            !.isNegotiating = FALSE, !.hasCreatedOffer = FALSE,
            !.gumStale = @ + s.gum, !.gum = 0,
            !.pcSince = 0, !.sigSince = 0, !.offersOpen = 0, !.offersSent = 0,
            !.answersSent = 0]

\* cleanup() that leaves the offer guard as it is.
CleanupKeepingGuard(s) ==
    LET s1 == IF s.localStreamRef # 0
              THEN StopTracks(s, s.localStreamRef) ELSE s
        s2 == IF s1.peerConnectionRef # 0 THEN ClosePC(s1, s1.peerConnectionRef) ELSE s1
        s3 == IF s2.signalingRef # 0 THEN CloseSignaling(s2, s2.signalingRef) ELSE s2
    IN [ResetPending(s3) EXCEPT
            !.localStream = 0, !.remoteStream = 0, !.connectionState = "new",
            !.peerConnectionRef = 0, !.signalingRef = 0, !.localStreamRef = 0,
            !.isNegotiating = FALSE,
            !.gumStale = @ + s.gum, !.gum = 0,
            !.pcSince = 0, !.sigSince = 0, !.offersOpen = 0, !.offersSent = 0,
            !.answersSent = 0]

\* cleanup()
Cleanup(s) ==
    LET s1 == IF s.localStreamRef # 0
              THEN StopTracks(s, s.localStreamRef) ELSE s
        s2 == IF s1.peerConnectionRef # 0 THEN ClosePC(s1, s1.peerConnectionRef) ELSE s1
        s3 == IF s2.signalingRef # 0 THEN CloseSignaling(s2, s2.signalingRef) ELSE s2
    IN [ResetPending(s3) EXCEPT
            !.localStream = 0, !.remoteStream = 0, !.connectionState = "new",
            !.peerConnectionRef = 0, !.signalingRef = 0, !.localStreamRef = 0,
            !.isNegotiating = FALSE, !.hasCreatedOffer = FALSE,
            !.gumStale = @ + s.gum, !.gum = 0,
            !.pcSince = 0, !.sigSince = 0, !.offersOpen = 0, !.offersSent = 0,
            !.answersSent = 0]

(***************************************************************************)
(* The call page's camera switch.                                          *)
(***************************************************************************)

\* handleToggleCamera, to its await of getUserMedia; cam is the localStream
\* the handler's closure holds.
ToggleCameraStart(s) ==
    IF s.isSwitchingCamera \/ s.localStream = 0 THEN s
    ELSE [s EXCEPT !.isSwitchingCamera = TRUE, !.cam = s.localStream]

\* A camera switch that adds the new video track beside the old one.
ToggleCameraKeepingOld(s) ==
    [s EXCEPT !.tracks = Append(@, Track("video")),
              !.streams[s.cam] = @ \cup {Len(s.tracks) + 1},
              !.isSwitchingCamera = FALSE,
              !.cam = 0]

\* handleToggleCamera from the fulfilment of getUserMedia: the old video
\* track of the stream is stopped and removed, the new one added.
ToggleCameraResumed(s) ==
    LET new == Len(s.tracks) + 1
        old == {t \in s.streams[s.cam] : s.tracks[t].kind = "video"}
        ts  == [t \in DOMAIN s.tracks |->
                    IF t \in old
                    THEN [s.tracks[t] EXCEPT !.live = FALSE, !.stops = @ + 1]
                    ELSE s.tracks[t]]
    IN [s EXCEPT !.tracks = Append(ts, Track("video")),
                 !.streams[s.cam] = (@ \ old) \cup {new},
                 !.isSwitchingCamera = FALSE,
                 !.cam = 0]

\* handleToggleCamera from the rejection of getUserMedia: the catch block
\* calls setError, which the page does not define (a ReferenceError leaves
\* the handler through finally).
ToggleCameraFailed(s) ==
    [s EXCEPT !.pageThrew = TRUE, !.isSwitchingCamera = FALSE, !.cam = 0]

(***************************************************************************)
(* The AI settings panel.  A settings object is the number whose bits are  *)
(* its features: 1 objectDetection, 2 imageClassification.                 *)
(***************************************************************************)
Features == {1, 2}

\* {...settings, [featureId]: !settings[featureId]}
Flipped(settings, f) ==
    IF (settings \div f) % 2 = 1 THEN settings - f ELSE settings + f

\* handleAISettingsChange of the call page.
HandleAISettingsChange(s, newSettings) ==
    LET t == [s EXCEPT !.aiSettings = newSettings] IN
    IF s.isInitiator /\ s.signalingRef # 0
    THEN SendOrQueue(t, s.signalingRef, Message("ai-settings", s.id, newSettings))
    ELSE t

\* handleToggle of the panel: the checkbox of feature f.
HandleToggle(s, f) ==
    LET newSettings == Flipped(s.panel, f) IN
    HandleAISettingsChange([s EXCEPT !.panel = newSettings], newSettings)

\* handleToggleAll of the panel: Enable All (every feature is ready) or
\* Disable All.
HandleToggleAll(s, enable) ==
    LET newSettings == IF enable THEN 3 ELSE 0 IN
    HandleAISettingsChange([s EXCEPT !.panel = newSettings], newSettings)

\* pc.onicecandidate of connection p with a candidate: the candidates a
\* client gathers are numbered in the order it sends them.
OnIceCandidate(s, p) ==
    [SendVia(s, Message("ice-candidate", s.id, s.nlocal + 1)) EXCEPT !.nlocal = @ + 1]

\* pc.onconnectionstatechange of connection p, whose state has become st.
OnConnectionStateChange(s, p, st) ==
    LET t == [s EXCEPT !.connectionState = st]
    IN IF st = "failed" THEN [t EXCEPT !.error = "Connection failed"] ELSE t

(***************************************************************************)
(* The client's steps.                                                     *)
(***************************************************************************)

\* The label of a step that no claim needs to tell from the others.
Step == <<"step", "">>

\* Client c becomes s; what its sockets sent goes on the wire.  label names
\* the step in the client's history (last).
Commit(c, s, label) ==
    /\ cl' = [cl EXCEPT ![c] = [s EXCEPT !.outbuf = <<>>, !.last = label]]
    /\ wire' = [wire EXCEPT ![c] = @ \o s.outbuf]
    /\ UNCHANGED <<members, inbox, njoins, nsent>>

\* A cleanup() that directly follows a cleanup() is labelled "again".
CleanupLabel(s) ==
    IF s.last[1] = "cleanup" THEN <<"cleanup", "again">> ELSE <<"cleanup", "">>

\* The mount effect runs: initialize().
Mount(c) ==
    /\ ~cl[c].mounted
    /\ Commit(c, [InitializeStart(cl[c]) EXCEPT !.mounted = TRUE, !.nmounts = @ + 1],
              Step)

\* The mount effect's teardown: cleanup().
Unmount(c) ==
    /\ cl[c].mounted
    /\ Commit(c, [Cleanup(cl[c]) EXCEPT !.mounted = FALSE, !.ncleanups = @ + 1],
              CleanupLabel(cl[c]))

\* handleEndCall: cleanup(); the page is left afterwards (Unmount).
EndCall(c) ==
    /\ cl[c].mounted
    /\ Commit(c, [Cleanup(cl[c]) EXCEPT !.ncleanups = @ + 1], CleanupLabel(cl[c]))

\* getUserMedia fulfils for an initialize() started since the last cleanup.
MediaGranted(c) ==
    /\ cl[c].gum > 0
    /\ Commit(c, [InitializeResumed(cl[c]) EXCEPT !.gum = @ - 1], Step)

\* getUserMedia fulfils for an initialize() started before the last cleanup.
MediaGrantedLate(c) ==
    /\ cl[c].gumStale > 0
    /\ Commit(c, [InitializeResumed(cl[c]) EXCEPT !.gumStale = @ - 1],
              <<"late", "">>)

\* getUserMedia rejects.
MediaDenied(c) ==
    /\ cl[c].gum > 0
    /\ Commit(c, [InitializeFailed(cl[c]) EXCEPT !.gum = @ - 1, !.nfails = @ + 1],
              Step)

MediaDeniedLate(c) ==
    /\ cl[c].gumStale > 0
    /\ Commit(c, [InitializeFailed(cl[c]) EXCEPT !.gumStale = @ - 1, !.nfails = @ + 1],
              <<"late", "">>)

\* The user presses the camera switch.
ToggleCamera(c) ==
    /\ cl[c].mounted
    /\ ToggleCameraStart(cl[c]) # cl[c]
    /\ Commit(c, [ToggleCameraStart(cl[c]) EXCEPT !.ncam = @ + 1], Step)

\* getUserMedia of the camera switch fulfils.
CameraGranted(c) ==
    /\ cl[c].cam # 0
    /\ Commit(c, ToggleCameraResumed(cl[c]), <<"camera", "">>)

\* getUserMedia of the camera switch rejects.
CameraDenied(c) ==
    /\ cl[c].cam # 0
    /\ Commit(c, [ToggleCameraFailed(cl[c]) EXCEPT !.nfails = @ + 1], Step)

\* The user ticks the checkbox of feature f, which is disabled on the
\* non-initiator's page.
TicksFeature(c, f) ==
    /\ cl[c].mounted
    /\ cl[c].isInitiator
    /\ Commit(c, [HandleToggle(cl[c], f) EXCEPT !.nset = @ + 1], Step)

\* The user presses Enable All or Disable All.
PressesAll(c, enable) ==
    /\ cl[c].mounted
    /\ Commit(c, [HandleToggleAll(cl[c], enable) EXCEPT !.nset = @ + 1], Step)

\* The open socket of service k loses its connection.
SocketDrops(c, k) ==
    /\ k \in DOMAIN cl[c].sigs
    /\ cl[c].sigs[k].socket = "open"
    /\ Commit(c, [OnSocketClose(cl[c], k) EXCEPT !.ndrops = @ + 1], Step)

\* The page's processing loop has results and a signaling service to send
\* them with.
Submits(c) ==
    /\ cl[c].mounted
    /\ cl[c].signalingRef # 0
    /\ Commit(c, SendAIResults(cl[c]), Step)

\* The socket of service k opens.
SocketOpens(c, k) ==
    /\ k \in DOMAIN cl[c].sigs
    /\ cl[c].sigs[k].socket = "connecting"
    /\ Commit(c, OnOpen(cl[c], k), Step)

\* The texts a peer (or the relay) can send the client; candidates are
\* numbered in arrival order.
PeerTexts(s) ==
    {Message("offer", "B", 0), Message("answer", "B", 0),
     Message("ice-candidate", "B", s.nice + 1),
     PeerJoined("B"), PeerDisconnected("B"),
     Message("ai-settings", "B", 1), Message("unknown", "B", 0), Malformed("B")}

\* The texts that take part in the negotiation (the bound on received texts
\* counts these; the others leave the negotiation as it is).
Negotiates(m) ==
    m.json /\ m.type \in {"offer", "answer", "ice-candidate", "peer-joined",
                           "peer-disconnected"}

\* The label of the receipt of text m: the claims tell the receipt of a
\* peer-disconnected and of a text of unrecognized type from the others.
ReceiptLabel(m) ==
    IF ReadsType(m) /\ m.type \in {"peer-disconnected", "unknown"}
    THEN <<"received", m.type>> ELSE Step

\* An open socket of the client receives text m (which callbacks ran is
\* history these specifications do not keep).
Receives(c, m) ==
    /\ \E k \in DOMAIN cl[c].sigs : cl[c].sigs[k].socket = "open"
    /\ Commit(c, [OnSocketMessage(cl[c], m) EXCEPT
                    !.called = {},
                    !.nrecv = IF Negotiates(m) THEN @ + 1 ELSE @,
                    !.nice = IF m.type = "ice-candidate" THEN @ + 1 ELSE @],
              ReceiptLabel(m))

\* The oldest call in the chain of connection p fulfils.
Fulfils(c, p) ==
    /\ p \in DOMAIN cl[c].pcs
    /\ ~cl[c].pcs[p].closed
    /\ cl[c].pcs[p].chain # <<>>
    /\ LET o == Head(cl[c].pcs[p].chain) IN
        /\ CanFulfil(cl[c].pcs[p], o)
        /\ Commit(c, Resumed([cl[c] EXCEPT !.pcs[p].chain = Tail(@)], p, o),
                  Step)

\* The oldest call in the chain of connection p rejects.
Rejects(c, p) ==
    /\ p \in DOMAIN cl[c].pcs
    /\ ~cl[c].pcs[p].closed
    /\ cl[c].pcs[p].chain # <<>>
    /\ LET o == Head(cl[c].pcs[p].chain) IN
        /\ Commit(c, [Rejected([cl[c] EXCEPT !.pcs[p].chain = Tail(@)], o)
                        EXCEPT !.nfails = IF CanFulfil(cl[c].pcs[p], o) THEN @ + 1 ELSE @],
                  <<"rejected", o.kind>>)

\* The connection states the model lets a connection report: the handler
\* tells "failed" from the others, which "connected" stands for.
ConnectionStates == {"connected", "failed"}

\* Connection p reports a new connection state; its transports exist once a
\* description has been applied.
ConnectionStateChanges(c, p, st) ==
    /\ p \in DOMAIN cl[c].pcs
    /\ ~cl[c].pcs[p].closed
    /\ cl[c].pcs[p].localDescription \/ cl[c].pcs[p].remoteDescription
    /\ Commit(c, OnConnectionStateChange(cl[c], p, st), Step)

(***************************************************************************)
(* Spec: one session of one client (A) with its peer, its browser and its  *)
(* user.  The page is mounted once; the user may end the call and the page *)
(* may be left.  SpecLife: the page's effect runs again (a remount keeps    *)
(* the hook's refs and state), with fewer texts from the peer.             *)
(***************************************************************************)
Init ==
    /\ members = {}
    /\ wire = [c \in Conns |-> <<>>]
    /\ inbox = [c \in Conns |-> <<>>]
    /\ njoins = 0
    /\ nsent = 0
    /\ \E initiator \in BOOLEAN :
          cl = [c \in Clients |-> NewClient(c, IF c = "A" THEN initiator ELSE FALSE)]

\* The browser may reject a call it could fulfil (within the bound), and
\* rejects a call it cannot fulfil.
MayReject(s, p) ==
    /\ p \in DOMAIN s.pcs
    /\ s.pcs[p].chain # <<>>
    /\ s.nfails < MaxFails \/ ~CanFulfil(s.pcs[p], Head(s.pcs[p].chain))

\* What the browser and the peer do to client c, with at most maxRecv texts
\* of the negotiation.
Environment(c, maxRecv) ==
    \/ MediaGranted(c)
    \/ MediaGrantedLate(c)
    \/ cl[c].nfails < MaxFails /\ MediaDenied(c)
    \/ cl[c].nfails < MaxFails /\ MediaDeniedLate(c)
    \/ \E k \in DOMAIN cl[c].sigs : SocketOpens(c, k)
    \/ \E m \in PeerTexts(cl[c]) :
            (Negotiates(m) => cl[c].nrecv < maxRecv) /\ Receives(c, m)
    \/ \E p \in DOMAIN cl[c].pcs : Fulfils(c, p)
    \/ \E p \in DOMAIN cl[c].pcs : MayReject(cl[c], p) /\ Rejects(c, p)
    \/ \E p \in DOMAIN cl[c].pcs : \E st \in ConnectionStates :
            ConnectionStateChanges(c, p, st)

Next ==
    \/ cl["A"].nmounts = 0 /\ Mount("A")
    \/ Unmount("A")
    \/ cl["A"].ncleanups = 0 /\ EndCall("A")
    \/ Environment("A", MaxRecv)

Spec == Init /\ [][Next]_vars

LifeNext ==
    \/ cl["A"].nmounts < MaxMounts /\ Mount("A")
    \/ cl["A"].ncleanups < MaxCleanups /\ Unmount("A")
    \/ cl["A"].ncleanups < MaxCleanups /\ EndCall("A")
    \/ Environment("A", MaxLifeRecv)

SpecLife == Init /\ [][LifeNext]_vars

(***************************************************************************)
(* SpecCamera: one session of the page in which the user switches the      *)
(* camera, ends the call and leaves; the peer is silent.                   *)
(***************************************************************************)
CameraNext ==
    \/ cl["A"].nmounts = 0 /\ Mount("A")
    \/ Unmount("A")
    \/ cl["A"].ncleanups = 0 /\ EndCall("A")
    \/ MediaGranted("A")
    \/ MediaGrantedLate("A")
    \/ \E k \in DOMAIN cl["A"].sigs : SocketOpens("A", k)
    \/ cl["A"].ncam < MaxToggles /\ ToggleCamera("A")
    \/ CameraGranted("A")
    \/ cl["A"].nfails < MaxFails /\ CameraDenied("A")

SpecCamera == Init /\ [][CameraNext]_vars

(***************************************************************************)
(* SpecTrickle: one session in which nothing fails and the peer B keeps to *)
(* the protocol of a two-party room: to a joiner it sends its offer and    *)
(* then its candidates; an initiator is told that B joined, gets B's       *)
(* answer once its own offer is out, and then B's candidates.              *)
(***************************************************************************)
TrickleTexts(s) ==
    LET ndesc == s.nrecv - s.nice IN
    IF ~s.isInitiator
    THEN IF ndesc = 0 THEN {Message("offer", "B", 0)}
         ELSE IF s.nice < MaxTrickle
              THEN {Message("ice-candidate", "B", s.nice + 1)} ELSE {}
    ELSE IF ndesc = 0 THEN {PeerJoined("B")}
         ELSE IF ndesc = 1
              THEN IF \E i \in DOMAIN wire[s.id] : wire[s.id][i].type = "offer"
                   THEN {Message("answer", "B", 0)} ELSE {}
              ELSE IF s.nice < MaxTrickle
                   THEN {Message("ice-candidate", "B", s.nice + 1)} ELSE {}

TrickleNext ==
    \/ cl["A"].nmounts = 0 /\ Mount("A")
    \/ MediaGranted("A")
    \/ \E k \in DOMAIN cl["A"].sigs : SocketOpens("A", k)
    \/ \E m \in TrickleTexts(cl["A"]) : Receives("A", m)
    \/ \E p \in DOMAIN cl["A"].pcs : Fulfils("A", p)

SpecTrickle == Init /\ [][TrickleNext]_vars

(***************************************************************************)
(* Claims about the client.                                                *)
(***************************************************************************)

\* The program state of a client: the hook's state and refs and the objects
\* they own, without the model's history and the pending getUserMedia calls.
Program(s) ==
    [localStream |-> s.localStream, remoteStream |-> s.remoteStream,
     connectionState |-> s.connectionState, error |-> s.error,
     peerConnectionRef |-> s.peerConnectionRef, signalingRef |-> s.signalingRef,
     localStreamRef |-> s.localStreamRef, pending |-> s.pending,
     isNegotiating |-> s.isNegotiating, hasCreatedOffer |-> s.hasCreatedOffer,
     pcs |-> s.pcs, sigs |-> s.sigs, tracks |-> s.tracks, streams |-> s.streams]

IsIncreasing(seq) ==
    \A i \in DOMAIN seq : \A j \in DOMAIN seq : i < j => seq[i] < seq[j]

\* C2 (as claimed): on every open peer connection the candidates are applied
\* in arrival order, each once, none overtaken by a later one; and once the
\* remote description is set and no call is in flight, every candidate
\* received so far has been applied.
C2_IceInArrivalOrder ==
    \A p \in DOMAIN cl["A"].pcs :
        LET pc == cl["A"].pcs[p] IN
        ~pc.closed =>
            /\ IsIncreasing(pc.applied)
            /\ (pc.remoteDescription /\ pc.chain = <<>>) =>
                    pc.applied = [i \in 1..cl["A"].nice |-> i]

\* C3: in a session an initiator has at most one offer attempt that has not
\* failed, and has sent at most one offer: a further offer is created only
\* after the attempt before it failed and reset the guards.
C3_OfferIdempotence ==
    /\ cl["A"].offersOpen <= 1
    /\ cl["A"].offersSent <= 1
    /\ cl["A"].offersOpen = 1 => cl["A"].hasCreatedOffer

\* An offer attempt failed, a later peer-joined started the one offer that
\* was sent.
C3_Witness ==
    /\ cl["A"].isInitiator
    /\ cl["A"].nfails = 1
    /\ cl["A"].error = ""
    /\ cl["A"].nrecv >= 2
    /\ cl["A"].offersSent = 1
    /\ cl["A"].offersOpen = 1

\* C5 (as claimed): the completion of a getUserMedia call that was pending
\* when cleanup() ran changes nothing of the program state.
C5_LateCompletionsInert ==
    [][(cl'["A"].last[1] = "late" /\ cl'["A"].gumStale = cl["A"].gumStale - 1) =>
            Program(cl'["A"]) = Program(cl["A"])]_vars

\* C6 (as claimed): no track is stopped twice, right after cleanup() no track
\* is live, and no track is live once the call has ended and the page is left.
C6_TracksReleased ==
    /\ \A t \in DOMAIN cl["A"].tracks : cl["A"].tracks[t].stops <= 1
    /\ cl["A"].last[1] = "cleanup" =>
            \A t \in DOMAIN cl["A"].tracks : ~cl["A"].tracks[t].live
    /\ (~cl["A"].mounted /\ cl["A"].ncleanups > 0) =>
            \A t \in DOMAIN cl["A"].tracks : ~cl["A"].tracks[t].live

\* C7: no cleanup() throws, whether or not initialize() has completed, and a
\* cleanup() that directly follows a cleanup() leaves the program state as
\* it is.
C7_CleanupIdempotent ==
    [][(cl'["A"].ncleanups = cl["A"].ncleanups + 1) =>
            /\ ~cl'["A"].threw
            /\ cl["A"].last[1] = "cleanup" => Program(cl'["A"]) = Program(cl["A"])]_vars

\* A session was set up (its tracks exist, stopped once), and cleanup() has
\* run twice in a row.
C7_Witness ==
    /\ cl["A"].last = <<"cleanup", "again">>
    /\ cl["A"].tracks # <<>>
    /\ \A t \in DOMAIN cl["A"].tracks : cl["A"].tracks[t].stops = 1

\* C8 (as claimed): right after a call awaited by the offer, answer or
\* ice-candidate case has rejected, the error is reported, the peer
\* connection and the relay connection are open, and the negotiation guard
\* is false.
C8_GuardsClearedOnError ==
    (cl["A"].last[1] = "rejected" /\ cl["A"].last[2] \in {"offer", "answer", "ice"}) =>
        /\ cl["A"].error = "Signaling error"
        /\ cl["A"].peerConnectionRef # 0
        /\ ~cl["A"].pcs[cl["A"].peerConnectionRef].closed
        /\ cl["A"].signalingRef # 0
        /\ cl["A"].sigs[cl["A"].signalingRef].socket # "null"
        /\ ~cl["A"].isNegotiating

\* C9 (as claimed): since the last cleanup at most one peer connection and
\* at most one relay connection have been created.
C9_SingleInitialization ==
    /\ cl["A"].pcSince <= 1
    /\ cl["A"].sigSince <= 1

\* C13 (as claimed): when the handling of a signaling message begins, no
\* handler of an earlier message is suspended at an await: handlers run one
\* after the other.
C13_HandlersAtomic ==
    [][(cl'["A"].nrecv = cl["A"].nrecv + 1) =>
            \A p \in DOMAIN cl["A"].pcs : cl["A"].pcs[p].chain = <<>>]_vars

\* The step is the rejection of the getUserMedia call of an initialize().
MediaFailure ==
    /\ cl'["A"].nfails = cl["A"].nfails + 1
    /\ \/ cl'["A"].gum = cl["A"].gum - 1
       \/ cl'["A"].gumStale = cl["A"].gumStale - 1

\* C14: when media acquisition fails inside initialize(), the error is
\* surfaced and nothing else changes: no peer connection and no relay
\* connection is created, no track exists that did not, nothing is sent,
\* the refs, the guards and the status are as before; and when no peer
\* connection was ever created, none exists afterwards, no relay connection
\* exists and the status is new.
C14_MediaFailureBuildsNothing ==
    [][MediaFailure =>
            /\ cl'["A"].error = "Initialization failed"
            /\ [Program(cl'["A"]) EXCEPT !.error = ""]
                    = [Program(cl["A"]) EXCEPT !.error = ""]
            /\ wire' = wire
            /\ cl["A"].pcs = <<>> =>
                    /\ cl'["A"].pcs = <<>>
                    /\ cl'["A"].sigs = <<>>
                    /\ cl'["A"].connectionState = "new"
                    /\ cl'["A"].peerConnectionRef = 0
                    /\ cl'["A"].signalingRef = 0
                    /\ cl'["A"].localStreamRef = 0]_vars

\* The page is mounted, its one initialize() has failed: the error shows,
\* and there is no peer connection, no relay connection and no track.
C14_Witness ==
    /\ cl["A"].mounted
    /\ cl["A"].nfails = 1
    /\ cl["A"].gum = 0
    /\ cl["A"].gumStale = 0
    /\ cl["A"].error = "Initialization failed"
    /\ cl["A"].connectionState = "new"
    /\ cl["A"].pcs = <<>>
    /\ cl["A"].sigs = <<>>
    /\ cl["A"].tracks = <<>>

\* C15 (as claimed): once the status is failed it remains failed until
\* cleanup(): no step other than a cleanup changes it.
C15_FailureTerminal ==
    [][(cl["A"].connectionState = "failed"
            /\ cl'["A"].ncleanups = cl["A"].ncleanups) =>
                cl'["A"].connectionState = "failed"]_vars

\* The step is the receipt of a peer-disconnected text by client A.
PeerDisconnectReceipt ==
    /\ cl'["A"].last = <<"received", "peer-disconnected">>
    /\ cl'["A"].nrecv = cl["A"].nrecv + 1

\* C16 (as claimed): on receipt of peer-disconnected the status becomes
\* disconnected and the error 'Other party disconnected'; the local
\* stream and its tracks, the peer connections, the relay connections, the
\* refs, the guard flags and the candidate buffer are as before, and
\* nothing is sent.
C16_PeerDisconnectKeepsSession ==
    [][PeerDisconnectReceipt =>
            /\ cl'["A"].connectionState = "disconnected"
            /\ cl'["A"].error = "Other party disconnected"
            /\ [Program(cl'["A"]) EXCEPT !.connectionState = "", !.error = ""]
                    = [Program(cl["A"]) EXCEPT !.connectionState = "", !.error = ""]
            /\ wire' = wire]_vars

\* The step is the fulfilment of the getUserMedia call of a camera switch.
CameraSwitched ==
    /\ cl["A"].cam # 0
    /\ cl'["A"].cam = 0
    /\ cl'["A"].last = <<"camera", "">>

\* The call is active: the page is mounted and the stream the switch works
\* on is the stream of the session.
ActiveCall(s) ==
    /\ s.mounted
    /\ s.peerConnectionRef # 0
    /\ s.localStreamRef # 0
    /\ s.cam = s.localStreamRef

\* C20: a successful camera switch during an active call stops the old
\* video track (once) and removes it from the local stream, adds a new live
\* video track to the same stream, leaves the audio track in the stream and
\* as it was, leaves every other track and stream, the peer connections,
\* the relay connections, the refs, the guards, the buffer, the status and
\* the error as they were, and sends nothing.
C20_CameraSwitchLocal ==
    [][(CameraSwitched /\ ActiveCall(cl["A"])) =>
        LET s   == cl["A"]
            s2  == cl'["A"]
            st  == s.cam
            old == {t \in s.streams[st] : s.tracks[t].kind = "video"}
            new == Len(s.tracks) + 1
        IN /\ Cardinality(old) = 1
           /\ \A t \in old :
                /\ s.tracks[t].live
                /\ ~s2.tracks[t].live
                /\ s2.tracks[t].stops = 1
                /\ t \notin s2.streams[st]
           /\ Len(s2.tracks) = new
           /\ s2.tracks[new] = Track("video")
           /\ s2.streams[st] = (s.streams[st] \ old) \cup {new}
           /\ \A t \in DOMAIN s.tracks \ old : s2.tracks[t] = s.tracks[t]
           /\ \E t \in s2.streams[st] :
                s2.tracks[t].kind = "audio" /\ s2.tracks[t].live
           /\ \A i \in DOMAIN s.streams \ {st} : s2.streams[i] = s.streams[i]
           /\ [Program(s2) EXCEPT !.tracks = <<>>, !.streams = <<>>]
                = [Program(s) EXCEPT !.tracks = <<>>, !.streams = <<>>]
           /\ s2.pageThrew = s.pageThrew
           /\ ~s2.isSwitchingCamera
           /\ wire' = wire]_vars

\* The page is mounted with its session, the camera has been switched
\* twice: the stream holds the audio track and the newest video track, both
\* live, and the two earlier video tracks are stopped.
C20_Witness ==
    /\ ActiveCall([cl["A"] EXCEPT !.cam = cl["A"].localStreamRef])
    /\ cl["A"].last = <<"camera", "">>
    /\ cl["A"].ncam = 2
    /\ cl["A"].cam = 0
    /\ cl["A"].ncleanups = 0
    /\ cl["A"].streams[cl["A"].localStreamRef] = {2, 4}
    /\ cl["A"].tracks[2].live /\ cl["A"].tracks[4].live
    /\ ~cl["A"].tracks[1].live /\ ~cl["A"].tracks[3].live

\* The step is the rejection of the getUserMedia call of a camera switch.
CameraSwitchFailed ==
    /\ cl["A"].cam # 0
    /\ cl'["A"].cam = 0
    /\ cl'["A"].nfails = cl["A"].nfails + 1

\* The messages handleToggleCamera's catch block passes to setError.
CameraErrors ==
    {"This device doesn't have a back camera", "Camera permission denied",
     "Could not switch camera"}

\* C21 (as claimed): when the getUserMedia call of a camera switch rejects,
\* the page shows one of the camera errors and its handler does not throw,
\* the switching flag is false again, and the tracks, the streams, the
\* peer connections, the relay connections, the refs and the status are as
\* before.
C21_CameraFailureReported ==
    [][CameraSwitchFailed =>
            /\ cl'["A"].error \in CameraErrors
            /\ ~cl'["A"].pageThrew
            /\ ~cl'["A"].isSwitchingCamera
            /\ [Program(cl'["A"]) EXCEPT !.error = ""]
                    = [Program(cl["A"]) EXCEPT !.error = ""]
            /\ wire' = wire]_vars

\* C24: right after cleanup() localStream and remoteStream are null, the
\* status is new, the three refs are null, the peer connection and the
\* relay connection the refs held are closed, the tracks of the stream the
\* ref held are stopped, the candidate buffer is empty and both guards are
\* false, whatever the state before.
C24_CleanupPostcondition ==
    [][(cl'["A"].ncleanups = cl["A"].ncleanups + 1) =>
        LET s == cl["A"]
            s2 == cl'["A"]
        IN /\ s2.localStream = 0
           /\ s2.remoteStream = 0
           /\ s2.connectionState = "new"
           /\ s2.peerConnectionRef = 0
           /\ s2.signalingRef = 0
           /\ s2.localStreamRef = 0
           /\ s2.pending = <<>>
           /\ ~s2.isNegotiating
           /\ ~s2.hasCreatedOffer
           /\ ~s2.threw
           /\ s.peerConnectionRef # 0 => s2.pcs[s.peerConnectionRef].closed
           /\ s.signalingRef # 0 =>
                /\ s2.sigs[s.signalingRef].socket = "null"
                /\ ~s2.sigs[s.signalingRef].isConnected
           /\ s.localStreamRef # 0 =>
                \A t \in s.streams[s.localStreamRef] : ~s2.tracks[t].live]_vars

\* cleanup() has just run on a session that had sent its offer: the
\* connection and the socket it held are closed, and the state is reset.
C24_Witness ==
    /\ cl["A"].last[1] = "cleanup"
    /\ cl["A"].ncleanups = 1
    /\ cl["A"].isInitiator
    /\ Len(cl["A"].pcs) = 1
    /\ cl["A"].pcs[1].closed
    /\ cl["A"].sigs[1].socket = "null"
    /\ \E i \in DOMAIN wire["A"] : wire["A"][i].type = "offer"
    /\ ~cl["A"].hasCreatedOffer
    /\ cl["A"].peerConnectionRef = 0
    /\ cl["A"].connectionState = "new"

\* Peer connection pc carries a video and an audio track, and nothing else.
HasLocalTracks(s, pc) ==
    /\ pc.senders \subseteq DOMAIN s.tracks
    /\ Cardinality(pc.senders) = 2
    /\ \E t \in pc.senders : s.tracks[t].kind = "video"
    /\ \E t \in pc.senders : s.tracks[t].kind = "audio"

\* C26: every run of initialize() that creates a relay connection has
\* created a peer connection and added the local tracks to it before: the
\* k-th relay connection exists only with the k-th peer connection, which
\* carries the tracks unless it is closed; so whenever the client has sent
\* or received a signaling text, and whenever it holds a peer connection, a
\* connection with the tracks added exists.
C26_TracksBeforeSignaling ==
    LET s == cl["A"] IN
    /\ Len(s.sigs) = Len(s.pcs)
    /\ \A k \in DOMAIN s.sigs :
            s.pcs[k].closed \/ HasLocalTracks(s, s.pcs[k])
    /\ s.peerConnectionRef # 0 => HasLocalTracks(s, s.pcs[s.peerConnectionRef])
    /\ (s.nrecv > 0 \/ wire["A"] # <<>> \/ s.offersSent > 0 \/ s.answersSent > 0) =>
            \E p \in DOMAIN s.pcs : s.pcs[p].closed \/ HasLocalTracks(s, s.pcs[p])

\* The initiator has sent its offer over an open socket, and its peer
\* connection carries the two tracks.
C26_Witness ==
    /\ cl["A"].signalingRef # 0
    /\ cl["A"].sigs[cl["A"].signalingRef].socket = "open"
    /\ cl["A"].offersSent = 1
    /\ cl["A"].peerConnectionRef # 0
    /\ cl["A"].pcs[cl["A"].peerConnectionRef].senders = {1, 2}
    /\ cl["A"].pcs[cl["A"].peerConnectionRef].localDescription

\* C29: a client that is not the initiator never calls createOffer and
\* never sends an offer: no connection of its has createOffer or the
\* setLocalDescription of an own offer in flight, its offer guard is never
\* set, and no offer is among the texts it has sent or queued.
C29_JoinerNeverOffers ==
    LET s == cl["A"] IN
    ~s.isInitiator =>
        /\ s.offersOpen = 0
        /\ s.offersSent = 0
        /\ ~s.hasCreatedOffer
        /\ \A p \in DOMAIN s.pcs : \A i \in DOMAIN s.pcs[p].chain :
                s.pcs[p].chain[i].kind # "join"
        /\ \A p \in DOMAIN s.pcs : s.pcs[p].signalingState # "have-local-offer"
        /\ \A i \in DOMAIN wire["A"] : wire["A"][i].type # "offer"
        /\ \A k \in DOMAIN s.sigs : \A i \in DOMAIN s.sigs[k].messageQueue :
                s.sigs[k].messageQueue[i].type # "offer"

\* The joiner has received three texts of the negotiation over its open
\* socket and nothing has come of them (no call, no candidate buffered, no
\* description, no error, the status new): three peer-joined.
C29_Witness ==
    /\ ~cl["A"].isInitiator
    /\ cl["A"].nrecv = 3
    /\ cl["A"].nfails = 0
    /\ cl["A"].ncleanups = 0
    /\ cl["A"].peerConnectionRef # 0
    /\ cl["A"].pcs[cl["A"].peerConnectionRef].chain = <<>>
    /\ ~cl["A"].pcs[cl["A"].peerConnectionRef].remoteDescription
    /\ cl["A"].pending = <<>>
    /\ cl["A"].connectionState = "new"
    /\ cl["A"].error = ""
    /\ wire["A"] = <<>>

(***************************************************************************)
(* SpecRelay: the relay driven by arbitrary members.                       *)
(***************************************************************************)
MemberTexts(c) ==
    {Message("offer", c, 0), JsonNull(c), Malformed(c)}

RelayInit ==
    /\ members = {}
    /\ wire = [c \in Conns |-> <<>>]
    /\ inbox = [c \in Conns |-> <<>>]
    /\ njoins = 0
    /\ nsent = 0
    /\ cl = [c \in Clients |-> NewClient(c, FALSE)]

\* A socket connects to the room.
MemberConnects(c) ==
    /\ c \notin members
    /\ njoins < MaxJoins
    /\ OnConnect(c)
    /\ njoins' = njoins + 1
    /\ UNCHANGED <<nsent, cl>>

\* A member's socket sends a text.
MemberSends(c, m) ==
    /\ c \in members
    /\ nsent < MaxSends
    /\ wire' = [wire EXCEPT ![c] = Append(wire[c], m)]
    /\ nsent' = nsent + 1
    /\ UNCHANGED <<members, inbox, njoins, cl>>

\* The relay handles the next text of a member.
RelayHandles(c) ==
    /\ c \in members
    /\ wire[c] # <<>>
    /\ OnMessage(c)
    /\ UNCHANGED <<njoins, nsent, cl>>

\* A member's socket closes.
MemberCloses(c) ==
    /\ c \in members
    /\ OnClose(c)
    /\ UNCHANGED <<njoins, nsent, cl>>

RelayNext ==
    \/ \E c \in Conns : MemberConnects(c)
    \/ \E c \in Conns : \E m \in MemberTexts(c) : MemberSends(c, m)
    \/ \E c \in Conns : RelayHandles(c)
    \/ \E c \in Conns : MemberCloses(c)

SpecRelay == RelayInit /\ [][RelayNext]_vars

(***************************************************************************)
(* Claims about the relay.                                                 *)
(***************************************************************************)

\* The step is the relay handling the oldest text of p.
HandledFrom(p) ==
    /\ p \in members
    /\ wire[p] # <<>>
    /\ wire'[p] = Tail(wire[p])
    /\ members' = members

\* C1 (as claimed): when the relay handles a JSON-parseable message sent by member P, every
\* other connected member gets exactly that message appended once to what the
\* relay has sent it, and P (like every connection outside the room) gets
\* nothing.
C1_FanOutNoEcho ==
    [][\A p \in Conns :
        (HandledFrom(p) /\ Head(wire[p]).json) =>
            \A q \in Conns :
                IF q \in members /\ q # p
                THEN inbox'[q] = Append(inbox[q], Head(wire[p]))
                ELSE inbox'[q] = inbox[q]]_vars

\* A room of three in which B and C each hold A's offer, and A holds nothing
\* of its own.
C1_Witness ==
    /\ members = {"A", "B", "C"}
    /\ \E i \in DOMAIN inbox["B"] : inbox["B"][i] = Message("offer", "A", 0)
    /\ \E i \in DOMAIN inbox["C"] : inbox["C"][i] = Message("offer", "A", 0)
    /\ \A i \in DOMAIN inbox["A"] : inbox["A"][i].src # "A"

\* C12: when connection P enters the room, every member already there gets
\* exactly one peer-joined{peerId: P} appended, P starts with nothing
\* delivered (no notice about itself, none about the members already
\* there), connections outside the room get nothing; and no connection ever
\* holds a peer-joined about itself.
C12_JoinNotification ==
    [][/\ \A p \in Conns :
            (p \notin members /\ p \in members') =>
                \A q \in Conns :
                    IF q \in members
                    THEN inbox'[q] = Append(inbox[q], PeerJoined(p))
                    ELSE IF q = p THEN inbox'[q] = <<>>
                    ELSE inbox'[q] = inbox[q]
       /\ \A q \in Conns : \A i \in DOMAIN inbox'[q] :
            inbox'[q][i].type = "peer-joined" => inbox'[q][i].peerId # q]_vars

\* A, B and C entered in this order: A was told of B and of C, B of C, and C
\* of nobody.
C12_Witness ==
    /\ members = {"A", "B", "C"}
    /\ inbox["A"] = <<PeerJoined("B"), PeerJoined("C")>>
    /\ inbox["B"] = <<PeerJoined("C")>>
    /\ inbox["C"] = <<>>

\* C10: when member A's connection closes, every remaining member gets exactly
\* one peer-disconnected{peerId: A} and A gets none; and a message written by
\* a connection is only ever delivered while that connection is in the room,
\* so nothing of A's follows the notification.
C10_DisconnectSymmetry ==
    [][/\ \A a \in Conns :
            (a \in members /\ members' = members \ {a}) =>
                \A q \in Conns :
                    IF q \in members /\ q # a
                    THEN inbox'[q] = Append(inbox[q], PeerDisconnected(a))
                    ELSE inbox'[q] = inbox[q]
       /\ \A q \in Conns :
            (Len(inbox'[q]) > Len(inbox[q])) =>
                /\ Len(inbox'[q]) = Len(inbox[q]) + 1
                /\ LET m == inbox'[q][Len(inbox'[q])] IN
                       m.src # "relay" => m.src \in members']_vars

\* B holds A's offer and then the notice that A left; A is out of the room
\* with a message lost in flight.
C10_Witness ==
    /\ "A" \notin members
    /\ "C" \in members
    /\ \E i \in DOMAIN inbox["B"] : \E j \in DOMAIN inbox["B"] :
          /\ i < j
          /\ inbox["B"][i] = Message("offer", "A", 0)
          /\ inbox["B"][j] = PeerDisconnected("A")
    /\ \E j \in DOMAIN inbox["C"] : inbox["C"][j] = PeerDisconnected("A")

(***************************************************************************)
(* SpecStamped: the relay driven by arbitrary members whose texts carry    *)
(* their serial number (n, in sending order over the whole room) and the   *)
(* stamp of who was absent when they were sent.                            *)
(***************************************************************************)
StampedTexts(c) ==
    {[Message("offer", c, nsent + 1) EXCEPT !.stamp = Conns \ members]}

StampedNext ==
    \/ \E c \in Conns : MemberConnects(c)
    \/ \E c \in Conns : \E m \in StampedTexts(c) : MemberSends(c, m)
    \/ \E c \in Conns : RelayHandles(c)
    \/ \E c \in Conns : MemberCloses(c)

SpecStamped == RelayInit /\ [][StampedNext]_vars

\* C11 (as claimed): no member holds a text of another connection that was
\* sent while the member was not in the room.
C11_NoDeliveryOfEarlierSends ==
    \A q \in Conns : \A i \in DOMAIN inbox[q] :
        inbox[q][i].src # "relay" => q \notin inbox[q][i].stamp

\* C11 (amended): the relay keeps no backlog.  A connection enters the room
\* with nothing delivered, gets nothing while it is outside, and a member
\* gets a text of another connection only in the step in which the relay
\* handles that text: a text the relay handles while B is not a member is
\* never delivered to B, whatever B does later.
C11_NoBacklog ==
    [][\A q \in Conns :
        /\ (q \notin members /\ q \in members') => inbox'[q] = <<>>
        /\ (q \notin members /\ q \notin members') => inbox'[q] = inbox[q]
        /\ (q \in members /\ inbox'[q] # inbox[q]) =>
                \E m \in {inbox'[q][Len(inbox'[q])]} :
                    /\ inbox'[q] = Append(inbox[q], m)
                    /\ m.src # "relay" =>
                            /\ m.src \in members \ {q}
                            /\ wire[m.src] # <<>>
                            /\ m = Head(wire[m.src])
                            /\ wire'[m.src] = Tail(wire[m.src])]_vars

\* C holds a text that A sent, and the relay handled, while B was absent;
\* B has since joined and holds nothing of A's.
C11_Witness ==
    /\ members = {"A", "B", "C"}
    /\ \E i \in DOMAIN inbox["C"] :
            inbox["C"][i].src = "A" /\ "B" \in inbox["C"][i].stamp
    /\ \A c \in Conns : wire[c] = <<>>
    /\ \A i \in DOMAIN inbox["B"] : inbox["B"][i].src # "A"

\* C19: the texts of one sender that a member holds are in the order in
\* which the sender sent them, whatever the relay's own notices and the
\* texts of other senders between them.
C19_PerSenderFIFO ==
    \A q \in Conns : \A i \in DOMAIN inbox[q] : \A j \in DOMAIN inbox[q] :
        (i < j /\ inbox[q][i].src # "relay" /\ inbox[q][i].src = inbox[q][j].src) =>
            inbox[q][i].n < inbox[q][j].n

\* B holds two texts of A, sent back to back, with the notice that C joined
\* between them.
C19_Witness ==
    \E i \in DOMAIN inbox["B"] :
        /\ i + 2 \in DOMAIN inbox["B"]
        /\ inbox["B"][i].src = "A"
        /\ inbox["B"][i + 1] = PeerJoined("C")
        /\ inbox["B"][i + 2].src = "A"
        /\ inbox["B"][i + 2].n = inbox["B"][i].n + 1

(***************************************************************************)
(* SpecGarbled: a room whose members stay, and whose numbered texts may be *)
(* texts JSON.parse throws on.                                             *)
(***************************************************************************)
GarbledTexts(c) ==
    {Message("offer", c, nsent + 1), [Malformed(c) EXCEPT !.n = nsent + 1]}

GarbledNext ==
    \/ \E c \in Conns : MemberConnects(c)
    \/ \E c \in Conns : \E m \in GarbledTexts(c) : MemberSends(c, m)
    \/ \E c \in Conns : RelayHandles(c)

SpecGarbled == RelayInit /\ [][GarbledNext]_vars

\* C17: when the relay handles a text that JSON.parse throws on, nothing is
\* delivered to anybody and the room is as before (only the text is gone);
\* no member ever holds such a text; and a parseable text handled in any
\* state, also after such a text of the same or of another sender, is
\* forwarded to every other member.
C17_MalformedContained ==
    [][/\ \A p \in Conns :
            (HandledFrom(p) /\ ~Head(wire[p]).json) =>
                /\ inbox' = inbox
                /\ members' = members
                /\ wire' = [wire EXCEPT ![p] = Tail(wire[p])]
       /\ \A q \in Conns : \A i \in DOMAIN inbox'[q] : inbox'[q][i].json
       /\ \A p \in Conns :
            (HandledFrom(p) /\ ReadsType(Head(wire[p]))) =>
                \A q \in members \ {p} :
                    inbox'[q] = Append(inbox[q], Head(wire[p]))]_vars

\* The first text of the room was dropped (nobody holds it), and A's offer,
\* sent after it, has been forwarded to B.
C17_Witness ==
    /\ members = {"A", "B"}
    /\ nsent = 2
    /\ \A c \in Conns : wire[c] = <<>>
    /\ inbox["B"] = <<Message("offer", "A", 2)>>
    /\ inbox["A"] = <<PeerJoined("B")>>

(***************************************************************************)
(* SpecCall: the initiator A, the joiner B and the relay.  Each page is    *)
(* mounted once and stays; no call rejects; either client may reach the    *)
(* room first.  The relay accepts a socket before the socket's open event  *)
(* fires at the client; the relay and each client's event loop run what    *)
(* is ready to run.                                                        *)
(***************************************************************************)
CallInit ==
    /\ members = {}
    /\ wire = [c \in Conns |-> <<>>]
    /\ inbox = [c \in Conns |-> <<>>]
    /\ njoins = 0
    /\ nsent = 0
    /\ cl = [c \in Clients |-> NewClient(c, c = "A")]

Other(c) == IF c = "A" THEN "B" ELSE "A"

\* The relay accepts the socket client c is connecting.
CallAccepts(c) ==
    /\ cl[c].signalingRef # 0
    /\ cl[c].sigs[cl[c].signalingRef].socket = "connecting"
    /\ MemberConnects(c)

\* The open event of the accepted socket.
CallSocketOpens(c) ==
    /\ c \in members
    /\ \E k \in DOMAIN cl[c].sigs : SocketOpens(c, k)

\* The label of the receipt of a text the relay delivered: its type, when
\* the listener gets to read it.
DeliveryLabel(m) ==
    IF ReadsType(m) THEN <<"received", m.type>> ELSE Step

\* The open socket of client c receives the oldest text the relay sent it.
CallReceives(c) ==
    /\ inbox[c] # <<>>
    /\ \E k \in DOMAIN cl[c].sigs : cl[c].sigs[k].socket = "open"
    /\ LET m == Head(inbox[c])
           s == [OnSocketMessage(cl[c], m) EXCEPT
                    !.nrecv = IF Negotiates(m) THEN @ + 1 ELSE @,
                    !.nice = IF m.type = "ice-candidate" THEN @ + 1 ELSE @]
       IN /\ cl' = [cl EXCEPT ![c] = [s EXCEPT !.outbuf = <<>>,
                                             !.last = DeliveryLabel(m)]]
          /\ wire' = [wire EXCEPT ![c] = @ \o s.outbuf]
          /\ inbox' = [inbox EXCEPT ![c] = Tail(@)]
          /\ UNCHANGED <<members, njoins, nsent>>

\* Connection p, which has a local description, gathers a candidate.
LocalCandidate(c, p) ==
    /\ p \in DOMAIN cl[c].pcs
    /\ ~cl[c].pcs[p].closed
    /\ cl[c].pcs[p].localDescription
    /\ cl[c].nlocal < MaxLocal
    /\ Commit(c, OnIceCandidate(cl[c], p), Step)

\* Both descriptions are applied at both ends.
Negotiated(c) ==
    /\ cl[c].peerConnectionRef # 0
    /\ LET pc == cl[c].pcs[cl[c].peerConnectionRef] IN
           /\ ~pc.closed
           /\ pc.localDescription
           /\ pc.remoteDescription
           /\ pc.signalingState = "stable"

\* The transport between the two connections is up: c's connection reports
\* "connected".
TransportConnects(c) ==
    /\ Negotiated(c)
    /\ Negotiated(Other(c))
    /\ cl[c].connectionState # "connected"
    /\ Commit(c, OnConnectionStateChange(cl[c], cl[c].peerConnectionRef, "connected"),
              Step)

\* What client c's event loop can run.
CallClient(c) ==
    \/ cl[c].nmounts = 0 /\ Mount(c)
    \/ MediaGranted(c)
    \/ CallSocketOpens(c)
    \/ CallReceives(c)
    \/ \E p \in DOMAIN cl[c].pcs : Fulfils(c, p)
    \/ \E p \in DOMAIN cl[c].pcs : LocalCandidate(c, p)
    \/ TransportConnects(c)

\* What the relay can run.
CallRelay ==
    \/ \E c \in Clients : CallAccepts(c)
    \/ \E c \in Clients : RelayHandles(c)

CallNext ==
    \/ CallClient("A")
    \/ CallClient("B")
    \/ CallRelay

SpecCall ==
    /\ CallInit
    /\ [][CallNext]_vars
    /\ WF_vars(CallClient("A"))
    /\ WF_vars(CallClient("B"))
    /\ WF_vars(CallRelay)

(***************************************************************************)
(* SpecForeign: client A in a room with two other connections that send    *)
(* texts of a type no client recognizes.  A's page is mounted once and     *)
(* stays; no call rejects.                                                 *)
(***************************************************************************)
ForeignTexts(c) == {Message("unknown", c, nsent + 1)}

ForeignNext ==
    \/ cl["A"].nmounts = 0 /\ Mount("A")
    \/ MediaGranted("A")
    \/ CallAccepts("A")
    \/ CallSocketOpens("A")
    \/ CallReceives("A")
    \/ \E p \in DOMAIN cl["A"].pcs : Fulfils("A", p)
    \/ \E c \in Conns \ {"A"} : MemberConnects(c)
    \/ \E c \in Conns \ {"A"} : \E m \in ForeignTexts(c) : MemberSends(c, m)
    \/ \E c \in Conns : RelayHandles(c)

SpecForeign == Init /\ [][ForeignNext]_vars

\* The step is client A's receipt of a text of unrecognized type.
UnknownReceipt ==
    /\ inbox["A"] # <<>>
    /\ Head(inbox["A"]).type = "unknown"
    /\ inbox'["A"] = Tail(inbox["A"])

\* C18: the relay forwards a JSON text of unrecognized type to every other
\* member, once, and to nobody else; a client's receipt of it changes
\* nothing of the client (status, error, streams, tracks, connections, refs,
\* guard flags, candidate buffer, settings) and sends nothing.
C18_UnknownTypeForwardedAndIgnored ==
    [][/\ \A p \in Conns :
            (HandledFrom(p) /\ ReadsType(Head(wire[p]))
                    /\ Head(wire[p]).type = "unknown") =>
                \A q \in Conns :
                    IF q \in members /\ q # p
                    THEN inbox'[q] = Append(inbox[q], Head(wire[p]))
                    ELSE inbox'[q] = inbox[q]
       /\ UnknownReceipt =>
            /\ cl'["A"].last = <<"received", "unknown">>
            /\ Program(cl'["A"]) = Program(cl["A"])
            /\ cl'["A"].aiSettings = cl["A"].aiSettings
            /\ cl'["A"].threw = cl["A"].threw
            /\ wire' = wire]_vars

\* A, in the room with B and C and with a peer connection, has just
\* received a text of unrecognized type that C sent; B holds it too, and C
\* holds nothing of its own.
C18_Witness ==
    /\ members = {"A", "B", "C"}
    /\ cl["A"].last = <<"received", "unknown">>
    /\ cl["A"].peerConnectionRef # 0
    /\ \E i \in DOMAIN inbox["B"] :
            inbox["B"][i].type = "unknown" /\ inbox["B"][i].src = "C"
    /\ \A i \in DOMAIN inbox["C"] : inbox["C"][i].src # "C"

(***************************************************************************)
(* SpecSettings: the initiator A, the joiner B and the relay, with both    *)
(* users at their AI settings panels.  Each page is rendered from the      *)
(* start and mounted once; no call rejects.                                *)
(***************************************************************************)
SettingsClient(c) ==
    \/ cl[c].nmounts = 0 /\ Mount(c)
    \/ MediaGranted(c)
    \/ CallSocketOpens(c)
    \/ CallReceives(c)
    \/ \E p \in DOMAIN cl[c].pcs : Fulfils(c, p)
    \/ \E f \in Features : cl[c].nset < MaxSettings /\ TicksFeature(c, f)
    \/ \E enable \in BOOLEAN : cl[c].nset < MaxSettings /\ PressesAll(c, enable)

SettingsNext ==
    \/ SettingsClient("A")
    \/ SettingsClient("B")
    \/ CallRelay

SpecSettings == CallInit /\ [][SettingsNext]_vars

\* Text m carries AI settings.
IsSettings(m) == ReadsType(m) /\ m.type = "ai-settings"

\* C22 (as claimed): the non-initiator's active AI settings change only in
\* the step in which it receives an ai-settings text the initiator sent,
\* and the non-initiator never sends an ai-settings text.
C22_HostOnlyControl ==
    /\ [][cl'["B"].aiSettings # cl["B"].aiSettings =>
            /\ inbox["B"] # <<>>
            /\ inbox'["B"] = Tail(inbox["B"])
            /\ IsSettings(Head(inbox["B"]))
            /\ Head(inbox["B"]).src = "A"]_vars
    /\ [](\A i \in DOMAIN wire["B"] : ~IsSettings(wire["B"][i]))

\* An ai-settings text is queued at the initiator, on its way to the
\* relay, or on its way to the non-initiator.
SettingsInFlight ==
    \/ \E k \in DOMAIN cl["A"].sigs : \E i \in DOMAIN cl["A"].sigs[k].messageQueue :
            IsSettings(cl["A"].sigs[k].messageQueue[i])
    \/ \E i \in DOMAIN wire["A"] : IsSettings(wire["A"][i])
    \/ \E i \in DOMAIN inbox["B"] : IsSettings(inbox["B"][i])

\* C23 (as claimed): when both parties are in the room and no ai-settings
\* text is in flight, the non-initiator's active AI settings are the
\* initiator's.
C23_SettingsInSync ==
    ({"A", "B"} \subseteq members /\ ~SettingsInFlight) =>
        cl["B"].aiSettings = cl["A"].aiSettings

(***************************************************************************)
(* SpecCrossed: client A in a room with two other connections that send    *)
(* offers of their own, whenever they like.  A's page is mounted once and  *)
(* stays; the browser rejects the calls it cannot fulfil.                  *)
(***************************************************************************)
CrossedTexts(c) == {Message("offer", c, 0)}

CrossedNext ==
    \/ cl["A"].nmounts = 0 /\ Mount("A")
    \/ MediaGranted("A")
    \/ CallAccepts("A")
    \/ CallSocketOpens("A")
    \/ CallReceives("A")
    \/ \E p \in DOMAIN cl["A"].pcs : Fulfils("A", p)
    \/ \E p \in DOMAIN cl["A"].pcs :
            /\ cl["A"].pcs[p].chain # <<>>
            /\ ~CanFulfil(cl["A"].pcs[p], Head(cl["A"].pcs[p].chain))
            /\ Rejects("A", p)
    \/ \E c \in Conns \ {"A"} : MemberConnects(c)
    \/ \E c \in Conns \ {"A"} : \E m \in CrossedTexts(c) : MemberSends(c, m)
    \/ \E c \in Conns : RelayHandles(c)

SpecCrossed == Init /\ [][CrossedNext]_vars

\* The step is client A's receipt of a peer-joined text with a peer
\* connection, as an initiator that has created no offer and is not
\* negotiating.
PeerJoinedUnguarded ==
    /\ inbox["A"] # <<>>
    /\ Head(inbox["A"]).type = "peer-joined"
    /\ inbox'["A"] = Tail(inbox["A"])
    /\ cl["A"].isInitiator
    /\ cl["A"].peerConnectionRef # 0
    /\ ~cl["A"].hasCreatedOffer
    /\ ~cl["A"].isNegotiating

\* C25: an initiator with both guards false that receives peer-joined
\* while its connection's signaling state is not stable calls nothing,
\* sends nothing and leaves everything (both guards included) as it is;
\* in the stable state the same receipt sets both guards and calls
\* createOffer.
C25_SignalingStatePrecondition ==
    [][PeerJoinedUnguarded =>
        LET s  == cl["A"]
            s2 == cl'["A"]
            p  == s.peerConnectionRef
        IN IF s.pcs[p].signalingState # "stable"
           THEN /\ Program(s2) = Program(s)
                /\ ~s2.hasCreatedOffer
                /\ ~s2.isNegotiating
                /\ s2.offersOpen = s.offersOpen
                /\ s2.offersSent = s.offersSent
                /\ wire' = wire
           ELSE /\ s2.hasCreatedOffer
                /\ s2.isNegotiating
                /\ s2.pcs[p].chain = Append(s.pcs[p].chain, Call("createOffer", "join"))
                /\ wire' = wire]_vars

\* The initiator has just received peer-joined with an offer of the peer
\* applied and unanswered: it has created no offer and both guards are
\* false.
C25_Witness ==
    /\ cl["A"].last = <<"received", "peer-joined">>
    /\ cl["A"].isInitiator
    /\ cl["A"].peerConnectionRef # 0
    /\ cl["A"].pcs[cl["A"].peerConnectionRef].signalingState = "have-remote-offer"
    /\ ~cl["A"].hasCreatedOffer
    /\ ~cl["A"].isNegotiating
    /\ cl["A"].offersOpen = 0
    /\ cl["A"].offersSent = 0

(***************************************************************************)
(* SpecQueue: the signaling service of one session of client A, whose      *)
(* socket opens, loses its connection and opens again while the page       *)
(* submits numbered results; nothing consumes what the socket has sent.    *)
(***************************************************************************)
QueueNext ==
    \/ cl["A"].nmounts = 0 /\ Mount("A")
    \/ MediaGranted("A")
    \/ Unmount("A")
    \/ \E k \in DOMAIN cl["A"].sigs : SocketOpens("A", k)
    \/ \E k \in DOMAIN cl["A"].sigs : cl["A"].ndrops < MaxDrops /\ SocketDrops("A", k)
    \/ cl["A"].nsub < MaxSubmits /\ Submits("A")

SpecQueue == Init /\ [][QueueNext]_vars

\* The numbers of the results in a sequence of texts.
ResultsIn(seq) == {seq[i].n : i \in {j \in DOMAIN seq : seq[j].type = "ai-results"}}

\* The queue of the one signaling service of the session.
QueueOf(s) == IF s.sigs = <<>> THEN <<>> ELSE s.sigs[1].messageQueue

\* C27: every submitted text is either in the queue or sent, never both,
\* and what is sent and what is queued is in submission order with the
\* queue holding the later texts; a text submitted while the socket is open
\* is sent at once and not queued, one submitted otherwise is appended to
\* the queue and not sent; an open event sends the queue in order and
\* leaves it empty.
C27_SendQueue ==
    /\ [](LET s == cl["A"]
               both == wire["A"] \o QueueOf(s)
           IN /\ Len(both) = s.nsub
              /\ \A i \in DOMAIN both : both[i].n = i)
    /\ [][LET s  == cl["A"]
               s2 == cl'["A"]
           IN /\ (s2.nsub = s.nsub + 1) =>
                    LET m == Message("ai-results", "A", s.nsub + 1) IN
                    IF s.sigs[1].socket = "open"
                    THEN wire'["A"] = Append(wire["A"], m) /\ QueueOf(s2) = QueueOf(s)
                    ELSE wire'["A"] = wire["A"] /\ QueueOf(s2) = Append(QueueOf(s), m)
              /\ (s.sigs # <<>> /\ s.sigs[1].socket = "connecting"
                        /\ s2.sigs[1].socket = "open") =>
                    /\ wire'["A"] = wire["A"] \o QueueOf(s)
                    /\ QueueOf(s2) = <<>>]_vars

\* The socket has opened, lost its connection and opened again: the first
\* result was sent at once, the second was queued while the socket was
\* down and sent by the second open event, the third was sent at once.
C27_Witness ==
    /\ cl["A"].ndrops = 1
    /\ cl["A"].nsub = 3
    /\ cl["A"].sigs # <<>>
    /\ cl["A"].sigs[1].socket = "open"
    /\ cl["A"].sigs[1].messageQueue = <<>>
    /\ Len(wire["A"]) = 3
    /\ ResultsIn(wire["A"]) = {1, 2, 3}

(***************************************************************************)
(* SpecDispatch: one session of client A whose socket delivers whatever    *)
(* texts it is given, typed or not, parseable or not.  The page is mounted *)
(* once and stays; no call rejects.                                        *)
(***************************************************************************)
DispatchTexts ==
    {Message("offer", "B", 0), Message("ai-settings", "B", 1),
     Message("ai-results", "B", 0), Message("unknown", "B", 0),
     PeerJoined("B"), JsonNull("B"), Malformed("B")}

\* The socket of client c has text m to deliver.
Delivers(c, m) ==
    /\ nsent < MaxSends
    /\ inbox' = [inbox EXCEPT ![c] = Append(@, m)]
    /\ nsent' = nsent + 1
    /\ UNCHANGED <<members, wire, njoins, cl>>

DispatchNext ==
    \/ cl["A"].nmounts = 0 /\ Mount("A")
    \/ MediaGranted("A")
    \/ \E k \in DOMAIN cl["A"].sigs : SocketOpens("A", k)
    \/ \E m \in DispatchTexts : Delivers("A", m)
    \/ CallReceives("A")
    \/ \E p \in DOMAIN cl["A"].pcs : Fulfils("A", p)

SpecDispatch == Init /\ [][DispatchNext]_vars

NothingNegotiated ==
    /\ \A c \in Clients :
            /\ cl[c].offersOpen = 0
            /\ cl[c].offersSent = 0
            /\ cl[c].answersSent = 0
            /\ cl[c].connectionState = "new"
            /\ \A p \in DOMAIN cl[c].pcs : cl[c].pcs[p].chain = <<>>
    /\ \A c \in Conns : \A i \in DOMAIN wire[c] :
            wire[c][i].type \notin {"offer", "answer"}
    /\ \A c \in Conns : \A i \in DOMAIN inbox[c] :
            inbox[c][i].type \notin {"offer", "answer"}

HandshakeDone ==
    /\ cl["A"].offersSent = 1
    /\ cl["A"].answersSent = 0
    /\ cl["B"].offersSent = 0
    /\ cl["B"].answersSent = 1
    /\ Negotiated("A")
    /\ Negotiated("B")
    /\ cl["A"].connectionState = "connected"
    /\ cl["B"].connectionState = "connected"

\* C4: whenever the initiator A is in the room before the joiner B, then (B
\* joining and no call failing) eventually and from then on the handshake is
\* complete: A was told that B joined and sent one offer, B received it and
\* sent one answer, A received the answer, and both clients show
\* "connected" once the transport is up.
C4_HandshakeCompletes ==
    (members = {"A"}) ~> []HandshakeDone

\* The handshake is complete, every text has been delivered, and both
\* clients have received the other's candidates.
C4_Witness ==
    /\ HandshakeDone
    /\ cl["A"].nrecv >= 2
    /\ cl["B"].nrecv >= 1
    /\ cl["A"].error = ""
    /\ cl["B"].error = ""
    /\ \A c \in Clients : inbox[c] = <<>> /\ wire[c] = <<>>
    /\ \A c \in Clients : cl[c].nlocal = MaxLocal

=============================================================================
